---- MODULE Spec2Model ----
(***************************************************************************)
(* The operation scheduler of squangle's AsyncMysqlClient: one reactor     *)
(* thread, caller threads that submit Operations, cancel them, drop        *)
(* Connections and shut the Client down.                                   *)
(*                                                                         *)
(* Translated from squangle/mysql_client/AsyncMysqlClient.cpp.  The        *)
(* Operation state machine (Operation::run / cancel / completeOperation),  *)
(* addOperation, deferRemoveOperation and the active-connection counter    *)
(* live in Operation.cpp / AsyncMysqlClient.h; they are modelled from the  *)
(* written specification (sections 4.1, 4.3, 4.4, 5) and say so.           *)
(***************************************************************************)
EXTENDS Integers, Sequences, FiniteSets, TLC

\* ---------------------------------------------------------------- bounds
\* Operations ever constructed.
MaxOps == 2
\* Connection objects ever constructed (issued Connections and reset clones).
MaxConns == 2
\* Connections the Client issues (by connect or adoption); the rest of
\* MaxConns is for reset clones.
MaxIssued == 1
\* Caller (non-reactor) threads.
NumThreads == 2
Threads == 1..NumThreads

\* The positive query timeout a Connection may be configured with (ms); 0 is
\* "no timeout".
QueryTimeoutMs == 10
ConnectTimeoutMs == 20

\* What Connection::changeUser adds to the connect timeout (ms).
ChangeUserExtraMs == 1000

EmptyQueriesError == "Given vector of queries is empty"

\* ----------------------------------------------------------------- state
VARIABLES
  ops,                       \* Seq of Operation records, index = identity
  conns,                     \* Seq of Connection records, index = identity
  holders,                   \* Seq of ConnectionHolder records
  pending_operations_,       \* the Client's pending set (Operation ids)
  operations_to_remove_,     \* Seq of Operation ids awaiting cleanup
  block_operations_,         \* the "block new operations" flag
  is_shutdown_,              \* the atomic shutdown guard
  active_connection_counter_,
  rq,                        \* the reactor's runInEventBaseThread FIFO
  rpc,                       \* the reactor's position inside a closure
  loop,                      \* "running", "stopping" (terminateLoopSoon), "exited"
  pc,                        \* each caller thread's position
  loc,                       \* each caller thread's locals
  hist,                      \* observations: who drained, who returned, fatals,
                             \* the last exception a begin call threw
  options,                   \* the ConnectionOptions the application uses
  pending_operations_mutex_, \* holder of the pending-set lock (0: free)
  counters_mutex_            \* holder of the counters lock (0: free)

vars == <<ops, conns, holders, pending_operations_, operations_to_remove_,
          block_operations_, is_shutdown_, active_connection_counter_,
          rq, rpc, loop, pc, loc, hist, options,
          pending_operations_mutex_, counters_mutex_>>

\* The two locks.  In the actions that take a whole critical section in one
\* step the locks are free before and after.
mutexes == <<pending_operations_mutex_, counters_mutex_>>

\* The part of the state the Operation and Connection code acts on, as one
\* value, so that a handler that calls several of them composes them.
Cur ==
  [ops |-> ops, conns |-> conns, holders |-> holders,
   pend |-> pending_operations_, rem |-> operations_to_remove_,
   block |-> block_operations_, cnt |-> active_connection_counter_,
   rq |-> rq]

Put(s) ==
  /\ ops' = s.ops
  /\ conns' = s.conns
  /\ holders' = s.holders
  /\ pending_operations_' = s.pend
  /\ operations_to_remove_' = s.rem
  /\ block_operations_' = s.block
  /\ active_connection_counter_' = s.cnt
  /\ rq' = s.rq

OpIds == 1..Len(ops)
ConnIds == 1..Len(conns)
HolderIds == 1..Len(holders)

SeqToSet(q) == {q[i] : i \in 1..Len(q)}

\* ------------------------------------------------- ConnectionOptions inputs
\* The settings a Connection is created with.  dyingCb: a dying callback is
\* set; reusable / inTx: what isReusable() / inTransaction() answer;
\* resetBeforeClose / delayedReset: the two ConnectionOptions switches;
\* queryTimeout: getQueryTimeout().
ResetConfigs ==
  { [dyingCb |-> TRUE, reusable |-> TRUE, inTx |-> FALSE,
     resetBeforeClose |-> TRUE, delayedReset |-> TRUE,
     queryTimeout |-> QueryTimeoutMs, connectTimeout |-> QueryTimeoutMs],
    [dyingCb |-> TRUE, reusable |-> TRUE, inTx |-> FALSE,
     resetBeforeClose |-> TRUE, delayedReset |-> FALSE,
     queryTimeout |-> 0, connectTimeout |-> 0] }

NoResetConfigs ==
  { [dyingCb |-> FALSE, reusable |-> TRUE, inTx |-> FALSE,
     resetBeforeClose |-> TRUE, delayedReset |-> FALSE, queryTimeout |-> 0,
     connectTimeout |-> 0],
    [dyingCb |-> TRUE, reusable |-> TRUE, inTx |-> TRUE,
     resetBeforeClose |-> TRUE, delayedReset |-> TRUE, queryTimeout |-> 0,
     connectTimeout |-> 0],
    [dyingCb |-> TRUE, reusable |-> TRUE, inTx |-> FALSE,
     resetBeforeClose |-> FALSE, delayedReset |-> TRUE, queryTimeout |-> 0,
     connectTimeout |-> 0] }

ConnectionOptionsInputs == ResetConfigs \cup NoResetConfigs

\* A Connection as constructed: no holder yet, needToCloneConnection_ true,
\* operation_in_progress_ false, socket handler bound to nothing.
NewConnection(o, owner) ==
  [holder |-> 0, owner |-> owner, dyingCb |-> o.dyingCb,
   needToClone |-> TRUE, reusable |-> o.reusable, inTx |-> o.inTx,
   resetBeforeClose |-> o.resetBeforeClose, delayedReset |-> o.delayedReset,
   queryTimeout |-> o.queryTimeout, connectTimeout |-> o.connectTimeout,
   h0 |-> 0, dtor |-> "none", dtorCond |-> FALSE, resetOp |-> 0,
   op_ |-> 0, registered |-> FALSE, timerArmed |-> FALSE,
   inProgress |-> FALSE]

NewHolder == [state |-> "conn", needsReset |-> FALSE, recycled |-> 0]

\* An Operation as constructed: Unstarted.
NewOperation(kind, c, owned, nq, timeout, path, userHeld) ==
  [kind |-> kind, state |-> "Unstarted", conn |-> c, owned |-> owned,
   result |-> "None", err |-> "", callbacks |-> 0, issued |-> 0,
   nq |-> nq, timeout |-> timeout, cancelReq |-> FALSE, prev |-> "None",
   path |-> path, userHeld |-> userHeld, swept |-> FALSE]

\* ------------------------------------------------ Operation (spec 4.4, 5)
\* Terminal transition: the Operation becomes Completed with result r, its
\* terminal callback fires, the socket handler is unregistered and its timer
\* cancelled, and the Operation asks to be removed from the pending set
\* (deferRemoveOperation).  A Completed Operation is inert.  A cancelled or
\* timed-out Operation leaves its Connection not reusable.
CompleteOperation(s, o, r) ==
  IF s.ops[o].state = "Completed" THEN s
  ELSE LET c == s.ops[o].conn IN
       [s EXCEPT !.ops[o].state = "Completed",
                 !.ops[o].prev = s.ops[o].state,
                 !.ops[o].result = r,
                 !.ops[o].callbacks = @ + 1,
                 !.conns[c].registered = FALSE,
                 !.conns[c].timerArmed = FALSE,
                 !.conns[c].reusable =
                     IF r \in {"Cancelled", "TimedOut"} THEN FALSE ELSE @,
                 !.rem = Append(@, o)]

\* Operation::cancel.  Unstarted: immediate terminal, no reactor interaction.
\* Pending: the state becomes Cancelling and the terminal cleanup is left to
\* the next reactor callback (queued here) or readiness event.  Cancelling:
\* on the reactor thread (a readiness event observing Cancelling) the
\* terminal cleanup is done; a repeated request from a caller changes
\* nothing.  Completed: nothing.
CancelOperation(s, o, onReactor) ==
  LET st == s.ops[o].state
      s1 == [s EXCEPT !.ops[o].cancelReq = TRUE]
  IN  CASE st = "Unstarted" -> CompleteOperation(s1, o, "Cancelled")
        [] st = "Pending" ->
             [s1 EXCEPT !.ops[o].state = "Cancelling",
                        !.rq = Append(@, <<"complete", o>>)]
        [] st = "Cancelling" ->
             IF onReactor THEN CompleteOperation(s1, o, "Cancelled") ELSE s1
        [] OTHER -> s1

\* The Operation's first protocol step, on the reactor thread: the first
\* nonblocking protocol call is made, the socket handler registered and the
\* timeout armed (a zero timeout arms nothing).  A Connect first creates its
\* holder (Connection::initMysqlOnly), which counts as an active connection.
StartOperation(s, o) ==
  IF s.ops[o].state # "Pending" THEN s
  ELSE LET c == s.ops[o].conn
           mk == s.ops[o].kind = "Connect" /\ s.conns[c].holder = 0
           s1 == IF mk
                 THEN [s EXCEPT !.holders = Append(@, NewHolder),
                                !.conns[c].holder = Len(s.holders) + 1,
                                !.conns[c].h0 = Len(s.holders) + 1,
                                !.cnt = @ + 1]
                 ELSE s
       IN  [s1 EXCEPT !.ops[o].issued = @ + 1,
                      !.conns[c].registered = TRUE,
                      !.conns[c].timerArmed = (s.ops[o].timeout > 0)]

\* Operation::run.  Unstarted becomes Pending; the first step is scheduled
\* onto the reactor thread, or done directly when run is called on it.  An
\* Operation that is not Unstarted is not re-entered.
RunOperation(s, o, onReactor) ==
  IF s.ops[o].state # "Unstarted" THEN s
  ELSE LET s1 == [s EXCEPT !.ops[o].state = "Pending"]
       IN  IF onReactor THEN StartOperation(s1, o)
           ELSE [s1 EXCEPT !.rq = Append(@, <<"start", o>>)]

\* MysqlClientBase::addOperation: under the pending-set lock, an Operation
\* submitted while new operations are blocked is cancelled; the Operation is
\* added to the pending set.
AddOperation(s, o) ==
  LET s1 == IF s.block THEN CancelOperation(s, o, FALSE) ELSE s
  IN  [s1 EXCEPT !.pend = @ \cup {o}]

\* ------------------------------------------------------------------ Init
Init ==
  /\ ops = <<>>
  /\ conns = <<>>
  /\ holders = <<>>
  /\ pending_operations_ = {}
  /\ operations_to_remove_ = <<>>
  /\ block_operations_ = FALSE
  /\ is_shutdown_ = FALSE
  /\ active_connection_counter_ = 0
  /\ rq = <<>>
  /\ rpc = <<"idle">>
  /\ loop = "running"
  /\ pc = [t \in Threads |-> "idle"]
  /\ loc = [t \in Threads |-> [c |-> 0, o |-> 0, phase |-> 0]]
  /\ options \in ConnectionOptionsInputs
  /\ pending_operations_mutex_ = 0
  /\ counters_mutex_ = 0
  /\ hist = [drains |-> 0, terminated |-> 0, returned |-> FALSE,
             dfatal |-> FALSE, crashed |-> FALSE, thrown |-> "none",
             detached |-> FALSE, dcheck |-> FALSE]

Alive == ~hist.crashed

CanNewOp == Len(ops) < MaxOps
CanNewConn == Len(conns) < MaxConns
CanIssue ==
  /\ CanNewConn
  /\ Cardinality({c \in ConnIds : conns[c].needToClone}) < MaxIssued

\* ------------------------------------------------------- caller: submission
IdleThread == \E t \in Threads : pc[t] = "idle"

\* Caller threads are interchangeable: a call that takes several steps is
\* begun by the lowest-numbered idle thread.
NextCaller(t) ==
  /\ pc[t] = "idle"
  /\ \A u \in Threads : u < t => pc[u] # "idle"

\* MysqlClientBase::beginConnection: a ConnectOperation (owning a fresh
\* Connection, whose socket handler is bound to it) is constructed and added
\* to the pending set.
BeginConnection ==
  /\ Alive /\ IdleThread /\ CanNewOp /\ CanIssue
  /\ LET o == options
         c == Len(conns) + 1
         id == Len(ops) + 1
         s1 == [Cur EXCEPT
                  !.conns = Append(@, [NewConnection(o, "op")
                                         EXCEPT !.op_ = id]),
                  !.ops = Append(@, NewOperation("Connect", c, TRUE, 1,
                                   o.connectTimeout, "beginConnection", TRUE))]
     IN  Put(AddOperation(s1, id))
  /\ UNCHANGED <<mutexes, options, is_shutdown_, rpc, loop, pc, loc, hist>>

\* MysqlClientBase::adoptConnection: a Connection is made around a native
\* handle the caller brings (createConnection), with its holder; the caller
\* holds it.
AdoptConnection ==
  /\ Alive /\ IdleThread /\ CanIssue
  /\ LET h == Len(holders) + 1 IN
     /\ conns' = Append(conns, [NewConnection(options, "user")
                                  EXCEPT !.holder = h, !.h0 = h])
     /\ holders' = Append(holders, NewHolder)
  /\ active_connection_counter_' = active_connection_counter_ + 1
  /\ UNCHANGED <<mutexes, options, ops, pending_operations_, operations_to_remove_,
                 block_operations_, is_shutdown_, rq, rpc, loop, pc, loc,
                 hist>>

\* The caller runs an Operation it was handed.
UserRun(o) ==
  /\ Alive /\ IdleThread
  /\ ops[o].userHeld /\ ops[o].state = "Unstarted"
  /\ Put(RunOperation(Cur, o, FALSE))
  /\ UNCHANGED <<mutexes, options, is_shutdown_, rpc, loop, pc, loc, hist>>

\* A cancel request from a caller thread, in any state of the Operation.
UserCancel(o) ==
  /\ Alive /\ IdleThread
  /\ ops[o].userHeld
  /\ Put(CancelOperation(Cur, o, FALSE))
  /\ UNCHANGED <<mutexes, options, is_shutdown_, rpc, loop, pc, loc, hist>>

\* The caller holds Connection c: it was handed out and not moved into an
\* Operation since, or it sits in a succeeded Operation the caller holds
\* (ConnectResult / releaseConnection), from which the caller takes it.
UserHolds(c) ==
  /\ c \in ConnIds
  /\ \/ conns[c].owner = "user"
     \/ /\ conns[c].owner = "op"
        /\ \E o \in OpIds : /\ ops[o].conn = c /\ ops[o].owned
                             /\ ops[o].userHeld
                             /\ ops[o].state = "Completed"
                             /\ ops[o].result = "Succeeded"

\* The state with c taken out of the Operation that owned it.
Taken(s, c) ==
  [s EXCEPT !.conns[c].owner = "user",
            !.ops = [o \in DOMAIN s.ops |->
                       IF s.ops[o].conn = c
                       THEN [s.ops[o] EXCEPT !.owned = FALSE]
                       ELSE s.ops[o]]]

\* ------------------------------------------------ Connection: begin a query
\* The checks at the head of Connection::beginAnyQuery: the proxy holds a
\* Connection, the Connection is ok() (it has its holder), and
\* checkOperationInProgress() finds operation_in_progress_ false.
BeginAnyQueryAdmits(c) ==
  /\ c \in ConnIds
  /\ conns[c].holder # 0
  /\ ~conns[c].inProgress

\* Connection::beginAnyQuery after its checks: the Operation is constructed
\* with the query timeout (only when positive), added to the pending set, and
\* the Connection's socket handler is bound to it.
BeginAnyQuery(s, c, kind, owned, nq, path, userHeld) ==
  LET id == Len(s.ops) + 1
      qt == s.conns[c].queryTimeout
      s1 == [s EXCEPT !.ops = Append(@, NewOperation(kind, c, owned, nq,
                                  IF qt > 0 THEN qt ELSE 0, path, userHeld)),
                      !.conns[c].owner = IF owned THEN "op" ELSE @]
      s2 == AddOperation(s1, id)
  IN  [s2 EXCEPT !.conns[c].op_ = id]

\* Connection::beginMultiQuery / beginMultiQueryStreaming: beginAnyQuery, and
\* an empty query vector marks the Operation failed and cancels it.
BeginMultiQueryChecked(s, c, kind, nq, path) ==
  LET id == Len(s.ops) + 1
      s1 == BeginAnyQuery(s, c, kind, TRUE, nq, path, TRUE)
  IN  IF nq = 0
      THEN CancelOperation([s1 EXCEPT !.ops[id].err = EmptyQueriesError],
                           id, FALSE)
      ELSE s1

\* The calls exercised: <<surface, number of queries>>.
OwnedInputs ==
  {<<"beginQuery", 1>>, <<"beginMultiQuery", 0>>,
   <<"beginMultiQueryStreaming", 0>>, <<"streamMultiQuery", 0>>}

BlockingInputs == {<<"query", 1>>, <<"multiQuery", 0>>}

KindOfPath(path) ==
  CASE path = "beginQuery" -> "Query"
    [] path = "query" -> "Query"
    [] path = "beginMultiQuery" -> "MultiQuery"
    [] path = "multiQuery" -> "MultiQuery"
    [] OTHER -> "MultiQueryStream"

\* No caller is inside a blocking call on Connection c.
NoBlockingCallOn(c) ==
  \A t \in Threads : pc[t] \in {"q_flag", "q_wait"} => loc[t].c # c

\* The asynchronous surfaces: the caller moves its Connection into a new
\* Operation (OwnedConnection).  beginQuery takes one query; the multi-query
\* surfaces take a vector that may be empty.
BeginOwned(c, path, nq) ==
  /\ Alive /\ IdleThread /\ CanNewOp
  /\ UserHolds(c) /\ NoBlockingCallOn(c)
  /\ BeginAnyQueryAdmits(c)
  /\ path = "beginQuery" => nq = 1
  /\ Put(IF path \in {"beginMultiQuery", "beginMultiQueryStreaming"}
         THEN BeginMultiQueryChecked(Taken(Cur, c), c, KindOfPath(path), nq,
                                     path)
         ELSE BeginAnyQuery(Taken(Cur, c), c, KindOfPath(path), TRUE, nq,
                            path, TRUE))
  /\ UNCHANGED <<mutexes, options, is_shutdown_, rpc, loop, pc, loc, hist>>

\* What the checks at the head of Connection::beginAnyQuery throw for the
\* Connection c the proxy carries (0: the proxy carries none), in the order
\* of the code: CHECK_THROW(conn), CHECK_THROW(ok()), then
\* checkOperationInProgress().
BeginAnyQueryOutcome(s, c) ==
  IF c = 0 THEN "InvalidConnection"
  ELSE IF s.conns[c].holder = 0 THEN "InvalidConnection"
  ELSE IF s.conns[c].inProgress THEN "OperationInProgress"
  ELSE "none"

\* A beginAnyQuery that constructs, adds and binds the Operation before it
\* looks at the Connection.
BeginAnyQueryChecked_LateCheck(s, c, kind, owned, nq, path, userHeld) ==
  IF c = 0 THEN s
  ELSE BeginAnyQuery(s, c, kind, owned, nq, path, userHeld)

\* Connection::beginAnyQuery as a whole: when a check throws, nothing after
\* it has run.
BeginAnyQueryChecked(s, c, kind, owned, nq, path, userHeld) ==
  IF BeginAnyQueryOutcome(s, c) # "none" THEN s
  ELSE BeginAnyQuery(s, c, kind, owned, nq, path, userHeld)

\* The caller can take Connection c, which never got a holder, out of a
\* Connect Operation it holds that completed without success.
UserCanRelease(c) ==
  /\ c \in ConnIds
  /\ conns[c].owner = "op" /\ conns[c].holder = 0
  /\ \E o \in OpIds : /\ ops[o].conn = c /\ ops[o].owned /\ ops[o].userHeld
                       /\ ops[o].state = "Completed"
                       /\ ops[o].result # "Succeeded"

\* A changeUser that gives the Operation the connect timeout as it is.
ChangeUserTimeout_Plain(ct) == ct

\* The timeout Connection::changeUser gives its Operation from the connect
\* timeout ct: one second more when positive, none otherwise.
ChangeUserTimeout(ct) == IF ct > 0 THEN ct + ChangeUserExtraMs ELSE 0

\* Connection::changeUser: the caller moves its Connection into a
\* ChangeUserOperation, whose timeout is the connect timeout plus one second
\* (only when positive); the Connection's socket handler is bound to it.  The
\* Operation is returned without addOperation.
ChangeUser(c) ==
  /\ Alive /\ IdleThread /\ CanNewOp
  /\ UserHolds(c) /\ NoBlockingCallOn(c)
  /\ conns[c].holder # 0
  /\ LET id == Len(ops) + 1
         ct == conns[c].connectTimeout
         s0 == Taken(Cur, c)
     IN  Put([s0 EXCEPT
                !.ops = Append(@, NewOperation("ChangeUser", c, TRUE, 1,
                                 ChangeUserTimeout(ct),
                                 "changeUser", TRUE)),
                !.conns[c].owner = "op",
                !.conns[c].op_ = id])
  /\ UNCHANGED <<mutexes, options, is_shutdown_, rpc, loop, pc, loc, hist>>

\* ------------------------------------- Connection::query / multiQuery
\* The blocking surfaces on a borrowed Connection (ReferencedConnection), one
\* step per statement group.  QueryBegin: beginAnyQuery.
QueryBegin(t, c, path, nq) ==
  /\ Alive /\ NextCaller(t) /\ CanNewOp
  /\ UserHolds(c)
  /\ BeginAnyQueryAdmits(c)
  /\ path = "query" => nq = 1
  /\ Put(BeginAnyQuery(Taken(Cur, c), c, KindOfPath(path), FALSE, nq, path,
                       FALSE))
  /\ pc' = [pc EXCEPT ![t] = "q_flag"]
  /\ loc' = [loc EXCEPT ![t] = [c |-> c, o |-> Len(ops) + 1, phase |-> 0]]
  /\ UNCHANGED <<mutexes, options, is_shutdown_, rpc, loop, hist>>

\* operation_in_progress_ = true (after beginAnyQuery has returned), then
\* op->run(); the caller goes on to wait.
QueryRun(t) ==
  /\ Alive /\ pc[t] = "q_flag"
  /\ Put(RunOperation([Cur EXCEPT !.conns[loc[t].c].inProgress = TRUE],
                      loc[t].o, FALSE))
  /\ pc' = [pc EXCEPT ![t] = "q_wait"]
  /\ UNCHANGED <<mutexes, options, is_shutdown_, rpc, loop, loc, hist>>

\* wait() returns once the Operation is Completed; the call then returns the
\* result, throws QueryException (the Operation is not ok()) or lets an
\* exception of the post-query callback through: on each of these exits the
\* scope guard clears operation_in_progress_.
QueryReturn(t) ==
  /\ Alive /\ pc[t] = "q_wait"
  /\ ops[loc[t].o].state = "Completed"
  /\ conns' = [conns EXCEPT ![loc[t].c].inProgress = FALSE]
  /\ pc' = [pc EXCEPT ![t] = "idle"]
  /\ loc' = [loc EXCEPT ![t] = [c |-> 0, o |-> 0, phase |-> 0]]
  /\ UNCHANGED <<mutexes, options, ops, holders, pending_operations_, operations_to_remove_,
                 block_operations_, is_shutdown_, active_connection_counter_,
                 rq, rpc, loop, hist>>

\* Connection::query / multiQuery on a Connection beginAnyQuery rejects (no
\* holder, or operation_in_progress_ set by a call that is running): the
\* exception leaves the call before the scope guard exists, so the flag is
\* not touched.
QueryRejected(c, path, nq) ==
  /\ Alive /\ IdleThread
  /\ UserHolds(c) \/ UserCanRelease(c)
  /\ path = "query" => nq = 1
  /\ BeginAnyQueryOutcome(Cur, c) # "none"
  /\ Put(BeginAnyQueryChecked(Cur, c, KindOfPath(path), FALSE, nq, path,
                              FALSE))
  /\ hist' = [hist EXCEPT !.thrown = BeginAnyQueryOutcome(Cur, c)]
  /\ UNCHANGED <<mutexes, options, is_shutdown_, rpc, loop, pc, loc>>

\* operation_in_progress_ = true, then the pre-query callback throws: the
\* scope guard clears the flag and the call exits; the Operation was never
\* run.
QueryPreCallbackThrows(t) ==
  /\ Alive /\ pc[t] = "q_flag"
  /\ conns' = [conns EXCEPT ![loc[t].c].inProgress = FALSE]
  /\ pc' = [pc EXCEPT ![t] = "idle"]
  /\ loc' = [loc EXCEPT ![t] = [c |-> 0, o |-> 0, phase |-> 0]]
  /\ UNCHANGED <<mutexes, options, ops, holders, pending_operations_, operations_to_remove_,
                 block_operations_, is_shutdown_, active_connection_counter_,
                 rq, rpc, loop, hist>>

\* --------------------------------------------------- Connection::~Connection
\* The guard of the reset branch: holder, dying callback, clone requested,
\* reusable, not in a transaction, reset-before-close enabled.
ResetConditions(s, c) ==
  /\ s.conns[c].holder # 0
  /\ s.conns[c].dyingCb
  /\ s.conns[c].needToClone
  /\ s.conns[c].reusable
  /\ ~s.conns[c].inTx
  /\ s.conns[c].resetBeforeClose

\* The end of the destructor: with a holder and a dying callback the holder
\* is handed to the callback (recycled); a holder still held after that is
\* destroyed with the Connection (native close), which releases its count.
DestructorTail(s, c) ==
  LET h == s.conns[c].holder
      s1 == [s EXCEPT !.conns[c].owner = "dead", !.conns[c].holder = 0]
  IN  IF h # 0 /\ s.conns[c].dyingCb
      THEN [s1 EXCEPT !.holders[h].state = "pool",
                      !.holders[h].recycled = @ + 1]
      ELSE IF h # 0
      THEN [s1 EXCEPT !.holders[h].state = "closed", !.cnt = @ - 1]
      ELSE s1

\* A destructor whose clone shares the holder and the dying callback instead
\* of taking them from the original.
DestructorSpawnReset_NoSteal(s, c) ==
  LET k == Len(s.conns) + 1
      id == Len(s.ops) + 1
      qt == s.conns[c].queryTimeout
      clone == [s.conns[c] EXCEPT !.needToClone = FALSE, !.owner = "op",
                                  !.op_ = id, !.registered = FALSE,
                                  !.timerArmed = FALSE, !.inProgress = FALSE,
                                  !.dtor = "none", !.dtorCond = FALSE,
                                  !.resetOp = 0]
  IN  [s EXCEPT !.conns = Append([@ EXCEPT ![c].owner = "dying",
                                            ![c].resetOp = id], clone),
                !.ops = Append(@, NewOperation("Reset", k, TRUE, 1,
                                  IF qt > 0 THEN qt ELSE 0, "resetConn",
                                  FALSE)),
                !.rq = Append(@, <<"reset", id>>)]

\* The reset branch off the reactor thread: the holder is stolen into a clone
\* (needToCloneConnection_ false, same options, the dying callback moved to
\* it), Connection::resetConn builds the Reset Operation on the clone without
\* adding it to the pending set and binds the clone's socket handler to it,
\* and the closure (addOperation; run) is queued with runInThread.
DestructorSpawnReset(s, c) ==
  LET k == Len(s.conns) + 1
      id == Len(s.ops) + 1
      qt == s.conns[c].queryTimeout
      clone == [s.conns[c] EXCEPT !.needToClone = FALSE, !.owner = "op",
                                  !.op_ = id, !.registered = FALSE,
                                  !.timerArmed = FALSE, !.inProgress = FALSE,
                                  !.dtor = "none", !.dtorCond = FALSE,
                                  !.resetOp = 0]
  IN  [s EXCEPT !.conns = Append([@ EXCEPT ![c].holder = 0,
                                            ![c].dyingCb = FALSE,
                                            ![c].owner = "dying",
                                            ![c].resetOp = id], clone),
                !.ops = Append(@, NewOperation("Reset", k, TRUE, 1,
                                  IF qt > 0 THEN qt ELSE 0, "resetConn",
                                  FALSE)),
                !.rq = Append(@, <<"reset", id>>)]

\* The destructor on the reactor thread: with delayed reset the holder is
\* marked needs-reset-before-reuse; then the tail.
DestructorOnReactor(s, c) ==
  LET h == s.conns[c].holder
      s1 == IF ResetConditions(s, c) /\ s.conns[c].delayedReset
            THEN [s EXCEPT !.holders[h].needsReset = TRUE]
            ELSE s
  IN  DestructorTail(s1, c)

\* What the destructor run records about itself, for the properties.
NoteDestructor(s, c, where) ==
  [s EXCEPT !.conns[c].dtor = where,
            !.conns[c].dtorCond = ResetConditions(s, c)]

\* An Operation object is gone once it is Completed and nothing refers to it:
\* not the pending set, the remove list, a queued closure or a caller.
OpReleased(o) ==
  /\ ops[o].state = "Completed"
  /\ o \notin pending_operations_
  /\ o \notin SeqToSet(operations_to_remove_)
  /\ \A i \in 1..Len(rq) : rq[i][2] # o
  /\ rpc # <<"reset_run", o>>
  /\ \A t \in Threads : pc[t] # "idle" => loc[t].o # o

\* A Connection can be destroyed when the caller holds it and no blocking
\* call borrows it, or when the Operation that owns it is gone.
Destructible(c) ==
  /\ c \in ConnIds
  /\ \/ UserHolds(c) /\ NoBlockingCallOn(c)
     \/ /\ conns[c].owner = "op"
        /\ \E o \in OpIds : ops[o].conn = c /\ ops[o].owned /\ OpReleased(o)

\* ~Connection on caller thread t.  In the reset branch the thread goes on
\* to wait for the Reset Operation; otherwise the destructor is done.
DestructorBegin(t, c) ==
  /\ Alive /\ NextCaller(t) /\ Destructible(c)
  /\ LET s0 == NoteDestructor(Cur, c, "caller") IN
     IF ResetConditions(Cur, c)
     THEN /\ CanNewOp /\ CanNewConn
          /\ Put(DestructorSpawnReset(s0, c))
          /\ pc' = [pc EXCEPT ![t] = "dtor_wait"]
          /\ loc' = [loc EXCEPT ![t] = [c |-> c, o |-> Len(ops) + 1,
                                        phase |-> 0]]
     ELSE /\ Put(DestructorTail(s0, c))
          /\ UNCHANGED <<pc, loc>>
  /\ UNCHANGED <<mutexes, options, is_shutdown_, rpc, loop, hist>>

\* A destructor that does not wait for the Reset Operation.
DestructorWaitDone_NoWait(s, t) == TRUE

\* resetOp->wait() has returned (the Reset Operation is Completed): the tail
\* of the destructor, which finds neither holder nor callback.
DestructorWaitDone(s, t) ==
  s.ops[loc[t].o].state = "Completed"

DestructorEnd(t) ==
  /\ Alive /\ pc[t] = "dtor_wait"
  /\ DestructorWaitDone(Cur, t)
  /\ Put(DestructorTail(Cur, loc[t].c))
  /\ pc' = [pc EXCEPT ![t] = "idle"]
  /\ loc' = [loc EXCEPT ![t] = [c |-> 0, o |-> 0, phase |-> 0]]
  /\ UNCHANGED <<mutexes, options, is_shutdown_, rpc, loop, hist>>

\* An asynchronous surface called with a Connection beginAnyQuery rejects:
\* none at all (0), or one without a holder.  The exception unwinds through
\* the ConnectionProxy temporary, which destroys the Connection it owns.
BeginOwnedRejected(c, path, nq) ==
  /\ Alive /\ IdleThread
  /\ c = 0 \/ UserCanRelease(c)
  /\ path = "beginQuery" => nq = 1
  /\ BeginAnyQueryOutcome(Cur, c) # "none"
  /\ LET s0 == IF c = 0 THEN Cur ELSE Taken(Cur, c)
         s1 == BeginAnyQueryChecked(s0, c, KindOfPath(path), TRUE, nq, path,
                                    TRUE)
     IN  Put(IF c = 0 THEN s1 ELSE DestructorTail(s1, c))
  /\ hist' = [hist EXCEPT !.thrown = BeginAnyQueryOutcome(Cur, c)]
  /\ UNCHANGED <<mutexes, options, is_shutdown_, rpc, loop, pc, loc>>

\* The pool (external) lets go of a recycled holder: it is closed and its
\* count released.
PoolRelease(h) ==
  /\ Alive /\ h \in HolderIds /\ holders[h].state = "pool"
  /\ holders' = [holders EXCEPT ![h].state = "closed"]
  /\ active_connection_counter_' = active_connection_counter_ - 1
  /\ UNCHANGED <<mutexes, options, ops, conns, pending_operations_, operations_to_remove_,
                 block_operations_, is_shutdown_, rq, rpc, loop, pc, loc,
                 hist>>

\* ------------------------------------------------------------ reactor thread
ReactorTurn == Alive /\ loop # "exited" /\ rpc = <<"idle">>

\* One closure from the runInThread queue.  "start": an Operation's first
\* step.  "complete": the terminal cleanup a cancel request left to the
\* reactor.  "reset": the destructor's closure, whose first statement is
\* addOperation(resetOp); its second, run(), is the next reactor step.
ReactorTask ==
  /\ ReactorTurn /\ rq # <<>>
  /\ LET task == Head(rq)
         o == task[2]
         s0 == [Cur EXCEPT !.rq = Tail(@)]
     IN  CASE task[1] = "start" ->
                Put(StartOperation(s0, o)) /\ UNCHANGED rpc
           [] task[1] = "complete" ->
                Put(CompleteOperation(s0, o, "Cancelled")) /\ UNCHANGED rpc
           [] OTHER ->
                Put(AddOperation(s0, o)) /\ rpc' = <<"reset_run", o>>
  /\ UNCHANGED <<mutexes, options, is_shutdown_, loop, pc, loc, hist>>

\* A closure whose run() starts the Operation whatever its state.
ReactorResetRun_Rerun ==
  /\ Alive /\ loop # "exited" /\ rpc[1] = "reset_run"
  /\ Put(StartOperation([Cur EXCEPT !.ops[rpc[2]].state = "Pending"], rpc[2]))
  /\ rpc' = <<"idle">>
  /\ UNCHANGED <<mutexes, options, is_shutdown_, loop, pc, loc, hist>>

\* resetOp->run() inside the destructor's closure, on the reactor thread.
ReactorResetRun ==
  /\ Alive /\ loop # "exited" /\ rpc[1] = "reset_run"
  /\ Put(RunOperation(Cur, rpc[2], TRUE))
  /\ rpc' = <<"idle">>
  /\ UNCHANGED <<mutexes, options, is_shutdown_, loop, pc, loc, hist>>

\* A handlerReady that lacks the Cancelling branch: every readiness event
\* goes to invokeSocketActionable().
HandlerReadyDispatch_NoCancelBranch(s, c, outcome) ==
  CompleteOperation(s, s.conns[c].op_, IF outcome = "done" THEN "Succeeded"
                                                           ELSE "Failed")

\* ConnectionSocketHandler::handlerReady: delivery to a Completed or
\* Unstarted Operation throws OperationStateException out of a noexcept
\* function; Cancelling leads to cancel(), anything else to
\* invokeSocketActionable(), whose protocol step ends "done" or "error" (a
\* "pending" step re-arms and changes nothing).
HandlerReadyDispatch(s, c, outcome) ==
  LET o == s.conns[c].op_ IN
  IF s.ops[o].state = "Cancelling"
  THEN CancelOperation(s, o, TRUE)
  ELSE CompleteOperation(s, o, IF outcome = "done" THEN "Succeeded"
                                                   ELSE "Failed")

HandlerReady(c, outcome) ==
  /\ ReactorTurn
  /\ c \in ConnIds /\ conns[c].registered /\ conns[c].op_ # 0
  /\ IF ops[conns[c].op_].state \in {"Completed", "Unstarted"}
     THEN /\ hist' = [hist EXCEPT !.crashed = TRUE]
          /\ UNCHANGED <<ops, conns, holders, pending_operations_,
                         operations_to_remove_, block_operations_,
                         active_connection_counter_, rq>>
     ELSE /\ Put(HandlerReadyDispatch(Cur, c, outcome))
          /\ UNCHANGED hist
  /\ UNCHANGED <<mutexes, options, is_shutdown_, rpc, loop, pc, loc>>

\* ConnectionSocketHandler::timeoutExpired: op_->timeoutTriggered(), which
\* completes the Operation with a timeout unless it is already terminal.
TimeoutExpired(c) ==
  /\ ReactorTurn
  /\ c \in ConnIds /\ conns[c].timerArmed /\ conns[c].op_ # 0
  /\ Put(CompleteOperation([Cur EXCEPT !.conns[c].timerArmed = FALSE],
                           conns[c].op_, "TimedOut"))
  /\ UNCHANGED <<mutexes, options, is_shutdown_, rpc, loop, pc, loc, hist>>

\* AsyncMysqlClient::cleanupCompletedOperations: every listed Operation is
\* erased from the pending set; one that is not there is a DFATAL.  The list
\* is cleared.
CleanupErased(pend, rem) == pend \ SeqToSet(rem)

CleanupCompletedOperations ==
  /\ ReactorTurn /\ operations_to_remove_ # <<>>
  /\ pending_operations_' =
       CleanupErased(pending_operations_, operations_to_remove_)
  /\ hist' = [hist EXCEPT !.dfatal =
                @ \/ ~(SeqToSet(operations_to_remove_)
                         \subseteq pending_operations_)]
  /\ operations_to_remove_' = <<>>
  /\ UNCHANGED <<mutexes, options, ops, conns, holders, block_operations_, is_shutdown_,
                 active_connection_counter_, rq, rpc, loop, pc, loc>>

\* ~Connection on the reactor thread.
ReactorDestructor(c) ==
  /\ ReactorTurn /\ Destructible(c)
  /\ Put(DestructorOnReactor(NoteDestructor(Cur, c, "reactor"), c))
  /\ UNCHANGED <<mutexes, options, is_shutdown_, rpc, loop, pc, loc, hist>>

\* loopForever returns after terminateLoopSoon.
ReactorExit ==
  /\ Alive /\ loop = "stopping" /\ rpc = <<"idle">>
  /\ loop' = "exited"
  /\ UNCHANGED <<mutexes, options, ops, conns, holders, pending_operations_,
                 operations_to_remove_, block_operations_, is_shutdown_,
                 active_connection_counter_, rq, rpc, pc, loc, hist>>

\* ------------------------------------------------------------------ shutdown
\* The sweep of AsyncMysqlClient::drain, under the pending-set lock: the
\* block flag is set to the argument, every Unstarted Operation of the
\* pending set is cancelled and erased.
RECURSIVE CancelAll(_, _)
CancelAll(s, S) ==
  IF S = {} THEN s
  ELSE LET o == CHOOSE x \in S : \A y \in S : x <= y
       IN  CancelAll([CancelOperation(s, o, FALSE)
                        EXCEPT !.ops[o].swept = TRUE], S \ {o})

SweepTargets(s) == {o \in s.pend : s.ops[o].state = "Unstarted"}

DrainSweepOf(s, also_block_operations) ==
  LET S == SweepTargets(s)
      s1 == CancelAll([s EXCEPT !.block = also_block_operations], S)
  IN  [s1 EXCEPT !.pend = @ \ S]

\* The wait of drain: until the active-connection counter is 0.
DrainQuiescent == active_connection_counter_ = 0

\* A shutdownClient without the is_shutdown_ guard: every caller drains.
ShutdownGuardPasses_Always == TRUE

\* AsyncMysqlClient::shutdownClient.  ShutdownCall: a caller thread enters.
\* ShutdownGuard: is_shutdown_.exchange(true); the caller that finds it false
\* goes on to drain, any other returns at once.
ShutdownGuardPasses == ~is_shutdown_

ShutdownCall(t) ==
  /\ Alive /\ NextCaller(t)
  /\ pc' = [pc EXCEPT ![t] = "shutdown"]
  /\ UNCHANGED <<mutexes, options, ops, conns, holders, pending_operations_,
                 operations_to_remove_, block_operations_, is_shutdown_,
                 active_connection_counter_, rq, rpc, loop, loc, hist>>

ShutdownGuard(t) ==
  /\ Alive /\ pc[t] = "shutdown"
  /\ is_shutdown_' = TRUE
  /\ IF ShutdownGuardPasses
     THEN /\ pc' = [pc EXCEPT ![t] = "drain_sweep"]
          /\ loc' = [loc EXCEPT ![t] = [c |-> 0, o |-> 0, phase |-> 1]]
          /\ hist' = [hist EXCEPT !.drains = @ + 1]
     ELSE /\ pc' = [pc EXCEPT ![t] = "idle"]
          /\ hist' = [hist EXCEPT !.returned = TRUE]
          /\ UNCHANGED loc
  /\ UNCHANGED <<mutexes, options, ops, conns, holders, pending_operations_,
                 operations_to_remove_, block_operations_,
                 active_connection_counter_, rq, rpc, loop>>

\* drain(false) then drain(true): the sweep.
DrainSweep(t) ==
  /\ Alive /\ pc[t] = "drain_sweep"
  /\ Put(DrainSweepOf(Cur, loc[t].phase = 2))
  /\ pc' = [pc EXCEPT ![t] = "drain_wait"]
  /\ UNCHANGED <<mutexes, options, is_shutdown_, rpc, loop, loc, hist>>

\* The wait of phase 1 ends: on to phase 2.
DrainWaitFirst(t) ==
  /\ Alive /\ pc[t] = "drain_wait" /\ loc[t].phase = 1
  /\ DrainQuiescent
  /\ pc' = [pc EXCEPT ![t] = "drain_sweep"]
  /\ loc' = [loc EXCEPT ![t].phase = 2]
  /\ UNCHANGED <<mutexes, options, ops, conns, holders, pending_operations_,
                 operations_to_remove_, block_operations_, is_shutdown_,
                 active_connection_counter_, rq, rpc, loop, hist>>

\* The wait of phase 2 ends: terminateLoopSoon, then on to the join.
DrainWaitSecond(t) ==
  /\ Alive /\ pc[t] = "drain_wait" /\ loc[t].phase = 2
  /\ DrainQuiescent
  /\ loop' = IF loop = "running" THEN "stopping" ELSE loop
  /\ pc' = [pc EXCEPT ![t] = "join"]
  /\ hist' = [hist EXCEPT !.terminated = @ + 1]
  /\ UNCHANGED <<mutexes, options, ops, conns, holders, pending_operations_,
                 operations_to_remove_, block_operations_, is_shutdown_,
                 active_connection_counter_, rq, rpc, loc>>

\* thread_.join() returns once the reactor thread has left its loop, and
\* shutdownClient returns.
ShutdownJoin(t) ==
  /\ Alive /\ pc[t] = "join" /\ loop = "exited"
  /\ pc' = [pc EXCEPT ![t] = "idle"]
  /\ loc' = [loc EXCEPT ![t] = [c |-> 0, o |-> 0, phase |-> 0]]
  /\ hist' = [hist EXCEPT !.returned = TRUE]
  /\ UNCHANGED <<mutexes, options, ops, conns, holders, pending_operations_,
                 operations_to_remove_, block_operations_, is_shutdown_,
                 active_connection_counter_, rq, rpc, loop>>

\* ---------------------------------------------------------------------- Next
Next ==
  \/ BeginConnection
  \/ AdoptConnection
  \/ \E o \in OpIds : UserRun(o)
  \/ \E o \in OpIds : UserCancel(o)
  \/ \E c \in ConnIds, i \in OwnedInputs : BeginOwned(c, i[1], i[2])
  \/ \E c \in ConnIds : ChangeUser(c)
  \/ \E t \in Threads, c \in ConnIds, i \in BlockingInputs :
        QueryBegin(t, c, i[1], i[2])
  \/ \E t \in Threads : QueryRun(t)
  \/ \E t \in Threads : QueryReturn(t)
  \/ \E t \in Threads, c \in ConnIds : DestructorBegin(t, c)
  \/ \E t \in Threads : DestructorEnd(t)
  \/ \E h \in HolderIds : PoolRelease(h)
  \/ ReactorTask
  \/ ReactorResetRun
  \/ \E c \in ConnIds, r \in {"done", "error"} : HandlerReady(c, r)
  \/ \E c \in ConnIds : TimeoutExpired(c)
  \/ CleanupCompletedOperations
  \/ \E c \in ConnIds : ReactorDestructor(c)
  \/ ReactorExit
  \/ \E t \in Threads : ShutdownCall(t)
  \/ \E t \in Threads : ShutdownGuard(t)
  \/ \E t \in Threads : DrainSweep(t)
  \/ \E t \in Threads : DrainWaitFirst(t)
  \/ \E t \in Threads : DrainWaitSecond(t)
  \/ \E t \in Threads : ShutdownJoin(t)

Spec == Init /\ [][Next]_vars

\* The same program with the calls that end in an exception at the caller:
\* a begin call beginAnyQuery rejects, and a blocking call whose pre-query
\* callback throws.
NextCalls ==
  \/ Next
  \/ \E c \in ConnIds \cup {0}, i \in OwnedInputs :
        BeginOwnedRejected(c, i[1], i[2])
  \/ \E c \in ConnIds, i \in BlockingInputs : QueryRejected(c, i[1], i[2])
  \/ \E t \in Threads : QueryPreCallbackThrows(t)

SpecCalls == Init /\ [][NextCalls]_vars

\* ===================================================================== claims
InProgress(o) == ops[o].state \in {"Pending", "Cancelling"}

\* The reactor can still reach Operation o: its loop has not exited, and a
\* queued step names o or the socket handler of o's Connection is registered
\* and bound to o.
ReactorCanReach(o) ==
  /\ loop # "exited"
  /\ \/ \E i \in 1..Len(rq) : rq[i][2] = o
     \/ conns[ops[o].conn].registered /\ conns[ops[o].conn].op_ = o

\* C1: every Operation gets exactly one terminal callback: never two (the
\* callback count is 1 exactly when the Operation is Completed), and never
\* zero once it was run or cancelled (a cancelled Operation is Cancelling or
\* Completed, and an Operation in flight is still served by a live reactor
\* that can reach it).
C1_ExactlyOneTerminalCallback ==
  \A o \in OpIds :
    /\ ops[o].callbacks <= 1
    /\ ops[o].state = "Completed" <=> ops[o].callbacks = 1
    /\ ops[o].cancelReq => ops[o].state \in {"Cancelling", "Completed"}
    /\ InProgress(o) => Alive /\ ReactorCanReach(o)

\* C2: at most one Operation is in progress (Pending or Cancelling) on a
\* Connection in every reachable state.
C2_AtMostOneInProgress ==
  \A c \in ConnIds :
    Cardinality({o \in OpIds : ops[o].conn = c /\ InProgress(o)}) <= 1

\* A step in which caller t returns from shutdownClient: at once from the
\* guard, or from the join.
ShutdownReturns(t) ==
  /\ pc[t] \in {"shutdown", "join"}
  /\ pc'[t] = "idle"

\* C3: whenever a call to shutdownClient returns, the active-connection
\* counter is 0.
C3_ShutdownReturnsWithNoActiveConnection ==
  [][\A t \in Threads :
       ShutdownReturns(t) => active_connection_counter_' = 0]_vars

\* C4: whenever a call to shutdownClient returns, the pending set is empty.
C4_ShutdownReturnsWithEmptyPendingSet ==
  [][\A t \in Threads :
       ShutdownReturns(t) => pending_operations_' = {}]_vars

\* C5: after shutdownClient has returned no Operation transitions to Pending,
\* and the block flag, once set, is never cleared.
C5_NoPendingAfterShutdown ==
  [][/\ block_operations_ => block_operations_'
     /\ hist.returned =>
          \A o \in OpIds :
            ops'[o].state = "Pending" => ops[o].state = "Pending"]_vars

\* C6: the drain, the loop termination and the join are executed by exactly
\* one call of shutdownClient (the one that found is_shutdown_ false); any
\* other call returns from the guard without changing any Client state.
C6_ShutdownIdempotent ==
  [][/\ hist'.drains <= 1
     /\ hist'.terminated <= 1
     /\ Cardinality({t \in Threads :
                       pc'[t] \in {"drain_sweep", "drain_wait", "join"}}) <= 1
     /\ \A t \in Threads :
          pc[t] = "shutdown" /\ pc'[t] = "idle" =>
            /\ is_shutdown_ /\ is_shutdown_'
            /\ UNCHANGED <<ops, conns, holders, pending_operations_,
                           operations_to_remove_, block_operations_,
                           active_connection_counter_, rq, rpc, loop>>]_vars

\* C6 witness: a second call has returned from the guard while the first is
\* still draining.
C6_Witness ==
  /\ hist.returned
  /\ hist.drains = 1
  /\ \E t \in Threads : pc[t] \in {"drain_sweep", "drain_wait"}

IsMultiQuery(o) == ops[o].kind \in {"MultiQuery", "MultiQueryStream"}

\* C8: a MultiQuery or streaming MultiQuery constructed with zero queries is
\* marked failed with "Given vector of queries is empty" and cancelled at
\* construction, and no protocol call is ever issued for it.
C8_EmptyMultiQueryFails ==
  \A o \in OpIds :
    IsMultiQuery(o) /\ ops[o].nq = 0 =>
      /\ ops[o].err = EmptyQueriesError
      /\ ops[o].cancelReq
      /\ ops[o].issued = 0

\* The Reset Operations that issued COM_RESET_CONNECTION on holder h.
ResetsIssuedOn(h) ==
  {o \in OpIds : /\ ops[o].kind = "Reset"
                 /\ conns[ops[o].conn].h0 = h
                 /\ ops[o].issued >= 1}

\* C9: when a Connection that satisfies the reset conditions has been
\* destroyed and its holder handed to the recycle callback, exactly one
\* COM_RESET_CONNECTION was issued on that holder, whichever thread ran the
\* destructor.
C9_ExactlyOneResetBeforeRecycle ==
  \A c \in ConnIds :
    conns[c].dtorCond /\ holders[conns[c].h0].recycled >= 1 =>
      Cardinality(ResetsIssuedOn(conns[c].h0)) = 1

\* C10: for a Connection that satisfies the reset conditions and is destroyed
\* on a caller thread, the destructor has returned only if the Reset
\* Operation is Completed, and the holder has been handed to the recycle
\* callback only if the Reset Operation is Completed (and at most once).
C10_DestructorWaitsForReset ==
  \A c \in ConnIds :
    conns[c].dtorCond /\ conns[c].dtor = "caller" =>
      /\ conns[c].resetOp \in OpIds
      /\ ops[conns[c].resetOp].kind = "Reset"
      /\ conns[c].owner = "dead" =>
           ops[conns[c].resetOp].state = "Completed"
      /\ holders[conns[c].h0].recycled <= 1
      /\ holders[conns[c].h0].state # "conn" =>
           ops[conns[c].resetOp].state = "Completed"

\* C10 witness: such a destructor has returned after a Reset that ran to
\* success, and the holder has been recycled.
C10_Witness ==
  \E c \in ConnIds :
    /\ conns[c].dtorCond /\ conns[c].dtor = "caller"
    /\ conns[c].owner = "dead"
    /\ ops[conns[c].resetOp].result = "Succeeded"
    /\ holders[conns[c].h0].recycled = 1

\* The Connections that hold ConnectionHolder h.
HolderOwners(h) == {c \in ConnIds : conns[c].holder = h}

\* C11: every ConnectionHolder has exactly one owner: while it is live and
\* not recycled, exactly one Connection holds it, that Connection is the
\* caller's or is owned by exactly one Operation, and is not destroyed; once
\* it went to the recycle callback (or was closed) no Connection holds it.
\* It is handed to the dying callback at most once, so an original and its
\* clone never both hold it or both recycle it.
C11_HolderOwnedByExactlyOne ==
  \A h \in HolderIds :
    /\ holders[h].recycled <= 1
    /\ Cardinality(HolderOwners(h)) <= 1
    /\ holders[h].state = "conn" <=> Cardinality(HolderOwners(h)) = 1
    /\ holders[h].recycled = 1 => holders[h].state \in {"pool", "closed"}
    /\ \A c \in HolderOwners(h) :
         /\ conns[c].owner \in {"user", "op"}
         /\ conns[c].owner = "op" =>
              Cardinality({o \in OpIds : ops[o].conn = c /\ ops[o].owned}) = 1
         /\ conns[c].owner = "user" =>
              {o \in OpIds : ops[o].conn = c /\ ops[o].owned} = {}

\* C11 witness: a destructor is in its reset branch: the original has given
\* the holder up and the clone, owned by the Reset Operation, holds it.
C11_Witness ==
  \E c \in ConnIds :
    /\ conns[c].owner = "dying" /\ conns[c].holder = 0
    /\ \E k \in HolderOwners(conns[c].h0) :
         k # c /\ conns[k].owner = "op" /\ ~conns[k].needToClone

\* A step in which a begin call ended in exception e.
CallThrew(e) == hist'.thrown = e /\ hist.thrown # e

QueryKinds == {"Query", "MultiQuery", "MultiQueryStream"}

\* C12: a query begun on a Connection that is absent or has no holder fails
\* with InvalidConnection, and the failing call constructs no Operation,
\* adds nothing to the pending set, queues nothing, leaves every socket
\* handler bound as it was and every operation_in_progress_ flag at its
\* value; a query Operation is only ever constructed on a Connection that
\* has its holder.
C12_InvalidConnectionNoStateChange ==
  [][/\ \A c \in ConnIds :
          conns[c].holder = 0 =>
            /\ BeginAnyQueryOutcome(Cur, c) = "InvalidConnection"
            /\ ~BeginAnyQueryAdmits(c)
     /\ BeginAnyQueryOutcome(Cur, 0) = "InvalidConnection"
     /\ CallThrew("InvalidConnection") =>
          /\ Len(ops') = Len(ops)
          /\ pending_operations_' = pending_operations_
          /\ operations_to_remove_' = operations_to_remove_
          /\ rq' = rq
          /\ Len(conns') = Len(conns)
          /\ \A c \in ConnIds :
               /\ conns'[c].op_ = conns[c].op_
               /\ conns'[c].inProgress = conns[c].inProgress
               /\ conns'[c].registered = conns[c].registered
     /\ \A o \in 1..Len(ops') :
          o > Len(ops) /\ ops'[o].kind \in QueryKinds =>
            conns[ops'[o].conn].holder # 0]_vars

\* C12 witness: a begin call on a Connection without holder has thrown
\* InvalidConnection, with Operations in the pending set at the time.
C12_Witness ==
  /\ hist.thrown = "InvalidConnection"
  /\ pending_operations_ # {}
  /\ \E c \in ConnIds : conns[c].holder = 0 /\ conns[c].owner = "dead"

\* Caller t is inside a blocking query / multiQuery call.
InBlockingCall(t) == pc[t] \in {"q_flag", "q_wait"}

\* C13: for the blocking query and multiQuery, operation_in_progress_ of the
\* borrowed Connection is true from the start of the Operation until the call
\* exits (while the caller waits), it is false once the call has exited,
\* whatever the exit (result, QueryException, callback exception), and a call
\* rejected with OperationInProgress leaves every flag as it was.
C13_OperationInProgressFlag ==
  [][/\ \A t \in Threads :
          pc'[t] = "q_wait" => conns'[loc'[t].c].inProgress
     /\ \A t \in Threads :
          InBlockingCall(t) /\ pc'[t] = "idle" =>
            ~conns'[loc[t].c].inProgress
     /\ CallThrew("OperationInProgress") =>
          \A c \in ConnIds : conns'[c].inProgress = conns[c].inProgress]_vars

StateRank(st) ==
  CASE st = "Unstarted" -> 0
    [] st = "Pending" -> 1
    [] st = "Cancelling" -> 2
    [] OTHER -> 3

IsRun(o) == ops[o].state = "Unstarted" /\ ops'[o].state = "Pending"

\* C15: every Operation, of every kind, is in the Client's pending set at the
\* moment it is run.
C15_AddedBeforeRun ==
  [][\A o \in OpIds : IsRun(o) => o \in pending_operations_]_vars

\* The destructor's closure for Reset Operation o is still queued.
ResetClosureQueued(o) == \E i \in 1..Len(rq) : rq[i] = <<"reset", o>>

\* C16: the Reset Operation of a dying Connection is not in the pending set
\* until its closure runs on the reactor thread, and while it is on
\* operations_to_remove_ it is in the pending set: no drain sweep has taken
\* it out of the pending set, so cleanup never removes it twice.
C16_ResetNotRemovedTwice ==
  \A o \in OpIds :
    ops[o].kind = "Reset" =>
      /\ ResetClosureQueued(o) =>
           o \notin pending_operations_ /\ ops[o].state = "Unstarted"
      /\ o \in SeqToSet(operations_to_remove_) => o \in pending_operations_

\* A step of cleanupCompletedOperations: the remove list is emptied.
IsCleanup == operations_to_remove_ # <<>> /\ operations_to_remove_' = <<>>

\* C17: when cleanupCompletedOperations processes the remove list every
\* listed Operation is in the pending set, so the "asked to remove
\* non-pending operation" branch is never taken; after it the list is empty
\* and the pending set is what it was minus the listed Operations.
C17_CleanupRemovesOnlyPending ==
  [][/\ ~hist'.dfatal
     /\ IsCleanup =>
          /\ SeqToSet(operations_to_remove_) \subseteq pending_operations_
          /\ pending_operations_' =
               pending_operations_ \ SeqToSet(operations_to_remove_)]_vars

\* ------------------------------------------------- the locks, step by step
\* The critical sections of the Client with the acquisition and the release
\* of each lock as steps of their own.  The reactor thread is the lock holder
\* ReactorId, a caller thread t the holder t.
ReactorId == NumThreads + 1

LockHolders == Threads \cup {ReactorId}

\* beginConnection up to the call of addOperation: the ConnectOperation and
\* its Connection are constructed.
LockBeginConnection(t) ==
  /\ NextCaller(t) /\ CanNewOp /\ CanIssue
  /\ LET c == Len(conns) + 1
         id == Len(ops) + 1
     IN  /\ conns' = Append(conns, [NewConnection(options, "op")
                                      EXCEPT !.op_ = id])
         /\ ops' = Append(ops, NewOperation("Connect", c, TRUE, 1,
                            options.connectTimeout, "beginConnection", TRUE))
         /\ pc' = [pc EXCEPT ![t] = "add_lock"]
         /\ loc' = [loc EXCEPT ![t].o = id]
  /\ UNCHANGED <<mutexes, options, holders, pending_operations_,
                 operations_to_remove_, block_operations_, is_shutdown_,
                 active_connection_counter_, rq, rpc, loop, hist>>

\* addOperation: the pending-set lock is taken ...
AddOperationLock(t) ==
  /\ pc[t] = "add_lock" /\ pending_operations_mutex_ = 0
  /\ pending_operations_mutex_' = t
  /\ pc' = [pc EXCEPT ![t] = "add_locked"]
  /\ UNCHANGED <<counters_mutex_, options, ops, conns, holders,
                 pending_operations_, operations_to_remove_,
                 block_operations_, is_shutdown_,
                 active_connection_counter_, rq, rpc, loop, loc, hist>>

\* ... and under it the block flag is read and the Operation inserted; the
\* lock is released on return.
AddOperationUnlock(t) ==
  /\ pc[t] = "add_locked" /\ pending_operations_mutex_ = t
  /\ Put(AddOperation(Cur, loc[t].o))
  /\ pending_operations_mutex_' = 0
  /\ pc' = [pc EXCEPT ![t] = "idle"]
  /\ loc' = [loc EXCEPT ![t].o = 0]
  /\ UNCHANGED <<counters_mutex_, options, is_shutdown_, rpc, loop, hist>>

\* A change of the active-connection counter (a Connection issued, a holder
\* closed): the counters lock is taken, the counter changed by d, the lock
\* released (and the condition variable notified).
CounterLock(t, d) ==
  /\ NextCaller(t) /\ counters_mutex_ = 0
  /\ active_connection_counter_ + d \in 0..MaxConns
  /\ counters_mutex_' = t
  /\ pc' = [pc EXCEPT ![t] = IF d > 0 THEN "cnt_added" ELSE "cnt_removed"]
  /\ UNCHANGED <<pending_operations_mutex_, options, ops, conns, holders,
                 pending_operations_, operations_to_remove_,
                 block_operations_, is_shutdown_,
                 active_connection_counter_, rq, rpc, loop, loc, hist>>

CounterUnlock(t) ==
  /\ pc[t] \in {"cnt_added", "cnt_removed"} /\ counters_mutex_ = t
  /\ active_connection_counter_' =
       active_connection_counter_ + (IF pc[t] = "cnt_added" THEN 1 ELSE -1)
  /\ counters_mutex_' = 0
  /\ pc' = [pc EXCEPT ![t] = "idle"]
  /\ UNCHANGED <<pending_operations_mutex_, options, ops, conns, holders,
                 pending_operations_, operations_to_remove_,
                 block_operations_, is_shutdown_, rq, rpc, loop, loc, hist>>

\* shutdownClient: the caller that finds is_shutdown_ false enters
\* drain(false).
LockShutdown(t) ==
  /\ NextCaller(t) /\ ShutdownGuardPasses
  /\ is_shutdown_' = TRUE
  /\ pc' = [pc EXCEPT ![t] = "drain_lock_pending"]
  /\ loc' = [loc EXCEPT ![t].phase = 1]
  /\ hist' = [hist EXCEPT !.drains = @ + 1]
  /\ UNCHANGED <<mutexes, options, ops, conns, holders, pending_operations_,
                 operations_to_remove_, block_operations_,
                 active_connection_counter_, rq, rpc, loop>>

\* drain: the inner scope opens with the pending-set lock.
DrainLockPending(t) ==
  /\ pc[t] = "drain_lock_pending" /\ pending_operations_mutex_ = 0
  /\ pending_operations_mutex_' = t
  /\ pc' = [pc EXCEPT ![t] = "drain_locked"]
  /\ UNCHANGED <<counters_mutex_, options, ops, conns, holders,
                 pending_operations_, operations_to_remove_,
                 block_operations_, is_shutdown_,
                 active_connection_counter_, rq, rpc, loop, loc, hist>>

\* drain: the block flag is written and the pending set swept, under the
\* lock.
DrainSweepLocked(t) ==
  /\ pc[t] = "drain_locked" /\ pending_operations_mutex_ = t
  /\ Put(DrainSweepOf(Cur, loc[t].phase = 2))
  /\ pc' = [pc EXCEPT ![t] = "drain_swept"]
  /\ UNCHANGED <<mutexes, options, is_shutdown_, rpc, loop, loc, hist>>

\* A drain whose sweep is not in a scope of its own: the pending-set lock
\* lives to the end of the function.
DrainUnlockPending_KeepLock(t) ==
  /\ pc[t] = "drain_swept" /\ pending_operations_mutex_ = t
  /\ pc' = [pc EXCEPT ![t] = "drain_lock_counters"]
  /\ UNCHANGED <<mutexes, options, ops, conns, holders, pending_operations_,
                 operations_to_remove_, block_operations_, is_shutdown_,
                 active_connection_counter_, rq, rpc, loop, loc, hist>>

\* drain: the inner scope closes and the pending-set lock is released.
DrainUnlockPending(t) ==
  /\ pc[t] = "drain_swept" /\ pending_operations_mutex_ = t
  /\ pending_operations_mutex_' = 0
  /\ pc' = [pc EXCEPT ![t] = "drain_lock_counters"]
  /\ UNCHANGED <<counters_mutex_, options, ops, conns, holders,
                 pending_operations_, operations_to_remove_,
                 block_operations_, is_shutdown_,
                 active_connection_counter_, rq, rpc, loop, loc, hist>>

\* drain: the counters lock is taken.
DrainLockCounters(t) ==
  /\ pc[t] = "drain_lock_counters" /\ counters_mutex_ = 0
  /\ counters_mutex_' = t
  /\ pc' = [pc EXCEPT ![t] = "drain_check"]
  /\ UNCHANGED <<pending_operations_mutex_, options, ops, conns, holders,
                 pending_operations_, operations_to_remove_,
                 block_operations_, is_shutdown_,
                 active_connection_counter_, rq, rpc, loop, loc, hist>>

\* drain: the predicate of the wait, under the counters lock.  Counter 0: the
\* wait ends, drain returns and releases the lock; after drain(false) comes
\* drain(true).  Otherwise the condition variable releases the lock and the
\* thread sleeps.
DrainWaitCheck(t) ==
  /\ pc[t] = "drain_check" /\ counters_mutex_ = t
  /\ counters_mutex_' = 0
  /\ IF DrainQuiescent
     THEN IF loc[t].phase = 1
          THEN /\ pc' = [pc EXCEPT ![t] = "drain_lock_pending"]
               /\ loc' = [loc EXCEPT ![t].phase = 2]
          ELSE /\ pc' = [pc EXCEPT ![t] = "idle"]
               /\ loc' = [loc EXCEPT ![t].phase = 0]
     ELSE /\ pc' = [pc EXCEPT ![t] = "drain_sleep"]
          /\ UNCHANGED loc
  /\ UNCHANGED <<pending_operations_mutex_, options, ops, conns, holders,
                 pending_operations_, operations_to_remove_,
                 block_operations_, is_shutdown_,
                 active_connection_counter_, rq, rpc, loop, hist>>

\* drain: the sleeping thread wakes (notified or spuriously) and takes the
\* counters lock again to evaluate the predicate.
DrainWaitWake(t) ==
  /\ pc[t] = "drain_sleep" /\ counters_mutex_ = 0
  /\ counters_mutex_' = t
  /\ pc' = [pc EXCEPT ![t] = "drain_check"]
  /\ UNCHANGED <<pending_operations_mutex_, options, ops, conns, holders,
                 pending_operations_, operations_to_remove_,
                 block_operations_, is_shutdown_,
                 active_connection_counter_, rq, rpc, loop, loc, hist>>

\* cleanupCompletedOperations on the reactor thread: the pending-set lock is
\* taken ...
CleanupLock ==
  /\ rpc = <<"idle">> /\ operations_to_remove_ # <<>>
  /\ pending_operations_mutex_ = 0
  /\ pending_operations_mutex_' = ReactorId
  /\ rpc' = <<"cleanup">>
  /\ UNCHANGED <<counters_mutex_, options, ops, conns, holders,
                 pending_operations_, operations_to_remove_,
                 block_operations_, is_shutdown_,
                 active_connection_counter_, rq, loop, pc, loc, hist>>

\* ... the Operations of the remove list are erased from the pending set and
\* the list cleared under it, and the lock is released on return.
CleanupUnlock ==
  /\ rpc = <<"cleanup">> /\ pending_operations_mutex_ = ReactorId
  /\ pending_operations_' =
       CleanupErased(pending_operations_, operations_to_remove_)
  /\ hist' = [hist EXCEPT !.dfatal =
                @ \/ ~(SeqToSet(operations_to_remove_)
                         \subseteq pending_operations_)]
  /\ operations_to_remove_' = <<>>
  /\ pending_operations_mutex_' = 0
  /\ rpc' = <<"idle">>
  /\ UNCHANGED <<counters_mutex_, options, ops, conns, holders,
                 block_operations_, is_shutdown_,
                 active_connection_counter_, rq, loop, pc, loc>>

NextLocks ==
  \/ \E t \in Threads : LockBeginConnection(t)
  \/ \E t \in Threads : AddOperationLock(t)
  \/ \E t \in Threads : AddOperationUnlock(t)
  \/ \E t \in Threads, d \in {-1, 1} : CounterLock(t, d)
  \/ \E t \in Threads : CounterUnlock(t)
  \/ \E t \in Threads : LockShutdown(t)
  \/ \E t \in Threads : DrainLockPending(t)
  \/ \E t \in Threads : DrainSweepLocked(t)
  \/ \E t \in Threads : DrainUnlockPending(t)
  \/ \E t \in Threads : DrainLockCounters(t)
  \/ \E t \in Threads : DrainWaitCheck(t)
  \/ \E t \in Threads : DrainWaitWake(t)
  \/ CleanupLock
  \/ CleanupUnlock

SpecLocks == Init /\ [][NextLocks]_vars

\* The lock holder x takes a step.
Moves(x) == IF x = ReactorId THEN rpc' # rpc ELSE pc'[x] # pc[x]

ReactorShutdown(dcheck) ==
  /\ ReactorTurn
  /\ IF dcheck
     THEN /\ hist' = [hist EXCEPT !.crashed = TRUE, !.dcheck = TRUE]
          /\ UNCHANGED <<is_shutdown_, rpc>>
     ELSE /\ is_shutdown_' = TRUE
          /\ IF ShutdownGuardPasses
             THEN /\ rpc' = <<"drain_sweep", 1>>
                  /\ hist' = [hist EXCEPT !.drains = @ + 1]
             ELSE /\ hist' = [hist EXCEPT !.returned = TRUE]
                  /\ UNCHANGED rpc
  /\ UNCHANGED <<mutexes, options, ops, conns, holders, pending_operations_,
                 operations_to_remove_, block_operations_,
                 active_connection_counter_, rq, loop, pc, loc>>

\* The sweep of drain, run by the reactor thread.
ReactorDrainSweep ==
  /\ Alive /\ rpc[1] = "drain_sweep"
  /\ Put(DrainSweepOf(Cur, rpc[2] = 2))
  /\ rpc' = <<"drain_wait", rpc[2]>>
  /\ UNCHANGED <<mutexes, options, is_shutdown_, loop, pc, loc, hist>>

\* The wait of drain, run by the reactor thread: it sleeps on the condition
\* variable until the active-connection counter is 0.  After drain(false)
\* comes drain(true); after drain(true) terminateLoopSoon, the error is
\* logged, thread_ is detached and shutdownClient returns into the loop.
ReactorDrainWait ==
  /\ Alive /\ rpc[1] = "drain_wait"
  /\ DrainQuiescent
  /\ IF rpc[2] = 1
     THEN /\ rpc' = <<"drain_sweep", 2>>
          /\ UNCHANGED <<loop, hist>>
     ELSE /\ rpc' = <<"idle">>
          /\ loop' = IF loop = "running" THEN "stopping" ELSE loop
          /\ hist' = [hist EXCEPT !.terminated = @ + 1,
                                  !.detached = TRUE,
                                  !.returned = TRUE]
  /\ UNCHANGED <<mutexes, options, ops, conns, holders, pending_operations_,
                 operations_to_remove_, block_operations_, is_shutdown_,
                 active_connection_counter_, rq, pc, loc>>

NextReactorShutdown ==
  \/ Next
  \/ \E dcheck \in BOOLEAN : ReactorShutdown(dcheck)
  \/ ReactorDrainSweep
  \/ ReactorDrainWait

SpecReactorShutdown == Init /\ [][NextReactorShutdown]_vars

\* The reactor thread is inside shutdownClient.
ReactorInShutdown == rpc[1] \in {"drain_sweep", "drain_wait"}

\* Holder h is open and every Connection that has it belongs to an Operation
\* that is Pending or Cancelling: only a step of the reactor thread can bring
\* that Operation to Completed and the Connection to its end.
NeedsReactor(h) ==
  /\ holders[h].state = "conn"
  /\ \A c \in HolderOwners(h) :
       /\ conns[c].owner = "op"
       /\ \E o \in OpIds : ops[o].conn = c /\ ops[o].owned /\ InProgress(o)

\* The reactor thread sleeps in the wait of drain and every holder that is
\* not closed needs the reactor thread to be closed.
ReactorWaitsForItself ==
  /\ rpc[1] = "drain_wait"
  /\ ~DrainQuiescent
  /\ \A h \in HolderIds : holders[h].state # "closed" => NeedsReactor(h)

\* C19: a shutdownClient called on the reactor thread returns, having
\* detached the thread, also when Connections are open or Operations Pending
\* at the call: the call is not aborted and is never in a wait that only the
\* reactor thread itself could end.
C19_ReactorShutdownReturns ==
  /\ ~hist.dcheck
  /\ ~(ReactorInShutdown /\ ReactorWaitsForItself)

\* The reactor thread sleeps on active_connections_closed_cv_.
ReactorBlocked == rpc[1] = "drain_wait" /\ ~DrainQuiescent

\* A Connection destroyed on the reactor thread: its destructor is over in
\* the same step and has created no Reset Operation; under the reset
\* conditions with delayed reset the holder is marked and recycled.
ReactorDestructorImmediate(c) ==
  /\ conns[c].resetOp = 0
  /\ conns[c].owner = "dead"
  /\ conns[c].dtorCond /\ conns[c].delayedReset =>
       /\ holders[conns[c].h0].needsReset
       /\ holders[conns[c].h0].recycled >= 1

\* C20: the reactor thread never blocks: a Connection destroyed on the
\* reactor thread never waits for a Reset Operation (with delayed reset the
\* holder is marked needs-reset-before-reuse and recycled at once, no Reset
\* Operation is created), and no step of shutdownClient or drain makes the
\* reactor thread wait for the active-connection counter.
C20_ReactorNeverBlocks ==
  /\ \A c \in ConnIds :
       conns[c].dtor = "reactor" => ReactorDestructorImmediate(c)
  /\ ~ReactorBlocked

\* ------------------------------------------------ the sweep, entry by entry
\* One turn of the loop of drain is a test of the Operation's state and then
\* cancel() and erase.  The pending-set lock is held throughout, but run()
\* of an Operation takes no Client lock, so a caller thread can run the
\* Operation between the test and the cancel.
\* SweepPick: the lock is taken, the block flag written, and the loop comes
\* to an entry whose state() answers Unstarted.
SweepPick(t, o) ==
  /\ Alive /\ pc[t] = "drain_sweep"
  /\ pending_operations_mutex_ = 0
  /\ o \in SweepTargets(Cur)
  /\ \A x \in SweepTargets(Cur) : o <= x
  /\ pending_operations_mutex_' = t
  /\ block_operations_' = (loc[t].phase = 2)
  /\ pc' = [pc EXCEPT ![t] = "drain_cancel"]
  /\ loc' = [loc EXCEPT ![t].o = o]
  /\ UNCHANGED <<counters_mutex_, options, ops, conns, holders,
                 pending_operations_, operations_to_remove_, is_shutdown_,
                 active_connection_counter_, rq, rpc, loop, hist>>

\* SweepCancel: cancel() and erase of that entry, in whatever state it is
\* by now, then the rest of the loop; the scope closes and the lock is
\* released.
SweepCancel(t) ==
  /\ Alive /\ pc[t] = "drain_cancel"
  /\ pending_operations_mutex_ = t
  /\ LET o == loc[t].o
         s1 == [CancelOperation(Cur, o, FALSE)
                  EXCEPT !.ops[o].swept = TRUE, !.pend = @ \ {o}]
     IN  Put(DrainSweepOf(s1, loc[t].phase = 2))
  /\ pending_operations_mutex_' = 0
  /\ pc' = [pc EXCEPT ![t] = "drain_wait"]
  /\ loc' = [loc EXCEPT ![t].o = 0]
  /\ UNCHANGED <<counters_mutex_, options, is_shutdown_, rpc, loop, hist>>

\* While a sweep holds the pending-set lock, of the other threads only a
\* caller's run() is taken to go on.
NextSweep ==
  \/ pending_operations_mutex_ = 0 /\ Next
  \/ pending_operations_mutex_ # 0 /\ \E o \in OpIds : UserRun(o)
  \/ \E t \in Threads, o \in OpIds : SweepPick(t, o)
  \/ \E t \in Threads : SweepCancel(t)

SpecSweep == Init /\ [][NextSweep]_vars

\* Thread t completes a sweep of drain in this step.
SweepDone(t) ==
  pc[t] \in {"drain_sweep", "drain_cancel"} /\ pc'[t] = "drain_wait"

\* C21: a drain sweep cancels every Unstarted Operation of the pending set
\* and removes exactly those: after it the pending set holds no Unstarted
\* Operation, the cancelled ones are Completed as Cancelled, and an Operation
\* that was Pending, Cancelling or Completed in the pending set is still
\* there, in the same state, not cancelled by the sweep.
C21_SweepCancelsExactlyUnstarted ==
  [][\A t \in Threads : SweepDone(t) =>
       /\ \A o \in pending_operations_' : ops'[o].state # "Unstarted"
       /\ \A o \in pending_operations_ :
            IF ops[o].state = "Unstarted"
            THEN /\ o \notin pending_operations_'
                 /\ ops'[o].state = "Completed"
                 /\ ops'[o].result = "Cancelled"
            ELSE /\ o \in pending_operations_'
                 /\ ops'[o].state = ops[o].state
                 /\ ops'[o].swept = ops[o].swept
                 /\ ops'[o].cancelReq = ops[o].cancelReq]_vars

\* The Operation the socket handler of Connection c is bound to is Completed
\* or Unstarted.
BoundInert(c) ==
  /\ conns[c].op_ # 0
  /\ ops[conns[c].op_].state \in {"Completed", "Unstarted"}

\* The timer of Connection c expires in this step and the expiry is
\* delivered to the bound Operation: the timer is no longer armed, and the
\* Operations are as they were or the bound one has timed out.
TimerFires(c) ==
  /\ conns[c].timerArmed /\ ~conns'[c].timerArmed
  /\ conns[c].op_ # 0
  /\ ops' = ops \/ ops'[conns[c].op_].result = "TimedOut"

\* C22: readiness is dispatched by the bound Operation's state (only a
\* Pending Operation gets a protocol step, so only a Pending one ends
\* Succeeded or Failed; a Completed or Unstarted one gets
\* OperationStateException and no handler), and a timeout expiry delivered
\* to a Completed or Unstarted Operation gets OperationStateException instead
\* of timeout_triggered (so no Unstarted Operation ends TimedOut).
C22_DeliveryRejectedWhenInert ==
  [][/\ \A o \in OpIds :
          ops'[o].state = "Completed" =>
            /\ ops'[o].result \in {"Succeeded", "Failed"} =>
                 ops'[o].prev = "Pending"
            /\ ops'[o].result = "TimedOut" =>
                 ops'[o].prev \in {"Pending", "Cancelling"}
     /\ hist'.crashed /\ ~hist.crashed => ops' = ops
     /\ \A c \in ConnIds :
          BoundInert(c) /\ TimerFires(c) =>
            /\ hist'.crashed
            /\ ops' = ops]_vars

\* ------------------------------------------------- timeouts of Operations
\* The same program started with ConnectionOptions whose query timeout and
\* connect timeout are set or not independently of each other, and differ
\* when both are set; the reset conditions hold, so that every kind of
\* Operation is constructed.
TimeoutConfigs ==
  { [dyingCb |-> TRUE, reusable |-> TRUE, inTx |-> FALSE,
     resetBeforeClose |-> TRUE, delayedReset |-> FALSE,
     queryTimeout |-> q, connectTimeout |-> ct] :
      q \in {0, QueryTimeoutMs}, ct \in {0, ConnectTimeoutMs} }

InitTimeouts ==
  /\ ops = <<>>
  /\ conns = <<>>
  /\ holders = <<>>
  /\ pending_operations_ = {}
  /\ operations_to_remove_ = <<>>
  /\ block_operations_ = FALSE
  /\ is_shutdown_ = FALSE
  /\ active_connection_counter_ = 0
  /\ rq = <<>>
  /\ rpc = <<"idle">>
  /\ loop = "running"
  /\ pc = [t \in Threads |-> "idle"]
  /\ loc = [t \in Threads |-> [c |-> 0, o |-> 0, phase |-> 0]]
  /\ options \in TimeoutConfigs
  /\ pending_operations_mutex_ = 0
  /\ counters_mutex_ = 0
  /\ hist = [drains |-> 0, terminated |-> 0, returned |-> FALSE,
             dfatal |-> FALSE, crashed |-> FALSE, thrown |-> "none",
             detached |-> FALSE, dcheck |-> FALSE]

SpecTimeouts == InitTimeouts /\ [][Next]_vars

QueryAndResetKinds == QueryKinds \cup {"Reset"}

\* C23: an Operation of a query kind or a Reset is constructed with the
\* query timeout of its Connection, unchanged when positive; a ChangeUser
\* with the connect timeout plus exactly one second; a configured timeout of
\* zero gives the Operation no timeout, and an Operation without a timeout
\* never ends by a timer.
C23_TimeoutAtConstruction ==
  \A o \in OpIds :
    LET c == conns[ops[o].conn] IN
    /\ ops[o].kind \in QueryAndResetKinds =>
         ops[o].timeout = c.queryTimeout
    /\ ops[o].kind = "ChangeUser" =>
         ops[o].timeout = IF c.connectTimeout = 0 THEN 0
                          ELSE c.connectTimeout + ChangeUserExtraMs
    /\ ops[o].timeout = 0 => ops[o].result # "TimedOut"

\* C23 witness: connect timeout set, query timeout not: a ChangeUser with a
\* timeout beside a query or Reset without one.
C23_Witness ==
  /\ \E o \in OpIds : ops[o].kind = "ChangeUser" /\ ops[o].timeout > 0
  /\ \E o \in OpIds : ops[o].kind \in QueryAndResetKinds /\ ops[o].timeout = 0

\* Caller thread u is in resetOp->wait() inside ~Connection.
DestructorWaits(u) == pc[u] = "dtor_wait"

\* Caller thread t is in the wait of drain.
DrainWaits(t) == pc[t] = "drain_wait"

\* The Reset Operation thread u waits for can still be completed: it is
\* Completed already, or the reactor thread is in its loop to run the closure
\* and the protocol steps.
ResetCanComplete(u) ==
  \/ ops[loc[u].o].state = "Completed"
  \/ loop # "exited"

\* C24: no deadlock between shutdown and a destructor: a destructor waiting
\* for its Reset Operation is never left with a Reset that nothing can
\* complete any more, and there is no state in which shutdownClient waits for
\* the counter, a destructor waits for a Reset and no step is possible.
C24_WaitsCanEnd ==
  /\ \A u \in Threads : Alive /\ DestructorWaits(u) => ResetCanComplete(u)
  /\ Alive /\ (\E t \in Threads : DrainWaits(t))
           /\ (\E u \in Threads : DestructorWaits(u)) => ENABLED Next

\* Operation o enters the pending set in this step.
EntersPending(o) ==
  o \notin pending_operations_ /\ o \in pending_operations_'

\* Operation o leaves the pending set in this step.
LeavesPending(o) ==
  o \in pending_operations_ /\ o \notin pending_operations_'

\* C25: the pending set leaks nothing: an Operation enters it only before it
\* has run (so never a second time), leaves it only when it is Completed
\* (cleanupCompletedOperations, or the sweep that cancelled it while
\* Unstarted), and none is left in it when the reactor thread has gone and
\* nothing can remove it any more.
C25_PendingSetDoesNotLeak ==
  [][/\ \A o \in OpIds : EntersPending(o) => ops[o].state = "Unstarted"
     /\ \A o \in OpIds : LeavesPending(o) => ops'[o].state = "Completed"
     /\ loop' = "exited" => pending_operations_' = {}]_vars

====
